---- MODULE Spec2Model ----
(***************************************************************************)
(* Model of src/src/simulate_strategies.py: the monthly investment-date    *)
(* selector, the Lump Sum and DCA simulators and run_simulations.          *)
(*                                                                         *)
(* A DataFrame of prices is a sequence of rows [Date, adj_close] ordered   *)
(* by Date (get_price_series: ORDER BY Date).  A Date is a day ordinal     *)
(* (year*12 + month-1)*32 + day, so that .dt.year, .dt.month and .dt.day   *)
(* are computed from it.  A float is an exact fraction or one of the       *)
(* IEEE-754 specials inf, -inf, nan that numpy division by zero yields.    *)
(*                                                                         *)
(* SpecSim : simulate_lump_sum / simulate_dca called on one price series,  *)
(*           the DCA scan taken one row at a time.                         *)
(* Spec    : run_simulations over a list of tickers and a prices table.    *)
(***************************************************************************)
EXTENDS Integers, Sequences, FiniteSets, TLC

VARIABLES
    pc,              \* position of the modelled call
    prices,          \* the DataFrame handed to the simulator
    ticker,          \* the ticker handed to the simulator
    invest_dates,    \* simulate_dca: list of investment dates
    idx,             \* simulate_dca: number of rows already scanned
    total_units,     \* simulate_dca: accumulator
    total_invested,  \* simulate_dca: accumulator
    units_list,      \* simulate_dca: column under construction
    invested_list,   \* simulate_dca: column under construction
    value_list,      \* simulate_dca: column under construction
    result,          \* outcome of simulate_lump_sum / simulate_dca
    tickers,         \* run_simulations: argument
    db,              \* run_simulations: prices table, ticker -> series
    pos,             \* run_simulations: number of tickers processed
    all_results,     \* run_simulations: list of equity curves
    df_all,          \* run_simulations: returned DataFrame
    raised           \* run_simulations: exception that left the call

vars == <<pc, prices, ticker, invest_dates, idx, total_units, total_invested,
          units_list, invested_list, value_list, result,
          tickers, db, pos, all_results, df_all, raised>>

simVars == <<prices, ticker, invest_dates, idx, total_units, total_invested,
             units_list, invested_list, value_list, result>>

runVars == <<tickers, db, pos, all_results, df_all, raised>>

----------------------------------------------------------------------------
(* Program constants *)
INITIAL_CAPITAL == 10000
MONTHLY_CONTRIBUTION == 300
INVESTMENT_DAY == 5

(* Bounds of the model *)
MaxMonths == 2      \* calendar months a series may touch
MaxLen == 3         \* rows of a series handed to a simulator
MaxTickers == 2     \* length of the ticker list of run_simulations
MaxRunLen == 2      \* rows per ticker in the prices table

----------------------------------------------------------------------------
(* Dates *)
MkDate(y, m, d) == (y * 12 + (m - 1)) * 32 + d
YearOf(date) == (date \div 32) \div 12
MonthOf(date) == ((date \div 32) % 12) + 1
DayOf(date) == date % 32

\* The k-th calendar month of the model: 2015-12, 2016-12, 2017-01, 2017-02, ...
\* (the same month in two years, then consecutive months across a year end).
CalYear(k) == IF k = 1 THEN 2015 ELSE IF k = 2 THEN 2016 ELSE 2017 + ((k - 3) \div 12)
CalMonth(k) == IF k <= 2 THEN 12 ELSE ((k - 3) % 12) + 1

\* Trading days offered in each month: two before the target day, the
\* target day itself, one after it.
Days == {1, 3, 5, 20}
AllDates == {MkDate(CalYear(k), CalMonth(k), d) : k \in 1..MaxMonths, d \in Days}
Prices == {-10, 0, 10}
Tickers == {"AAPL", "^GSPC"}

----------------------------------------------------------------------------
(* Floats *)
Abs(n) == IF n < 0 THEN -n ELSE n

RECURSIVE GCD(_, _)
GCD(a, b) == IF b = 0 THEN a ELSE GCD(b, a % b)

\* the finite float n/d, d # 0, in lowest terms with a positive denominator
Fin(n, d) ==
    LET g == GCD(Abs(n), Abs(d))
        s == IF d < 0 THEN -1 ELSE 1
    IN [k |-> "fin", n |-> (s * n) \div g, d |-> Abs(d) \div g]
Inf == [k |-> "inf", n |-> 0, d |-> 1]
NegInf == [k |-> "ninf", n |-> 0, d |-> 1]
NaN == [k |-> "nan", n |-> 0, d |-> 1]
Zero == Fin(0, 1)

Sign(a) == CASE a.k = "inf" -> 1
             [] a.k = "ninf" -> -1
             [] a.k = "fin" -> (IF a.n > 0 THEN 1 ELSE IF a.n < 0 THEN -1 ELSE 0)
             [] OTHER -> 0

\* a / b for finite a, b; a numpy float64 divisor of zero gives inf, -inf
\* or nan (with a RuntimeWarning), not an exception
FDiv(a, b) ==
    IF b.n = 0
    THEN (IF a.n > 0 THEN Inf ELSE IF a.n < 0 THEN NegInf ELSE NaN)
    ELSE Fin(a.n * b.d, a.d * b.n)

\* a + b
FAdd(a, b) ==
    CASE a.k = "nan" \/ b.k = "nan" -> NaN
      [] a.k = "fin" /\ b.k = "fin" -> Fin(a.n * b.d + b.n * a.d, a.d * b.d)
      [] a.k = "fin" -> b
      [] b.k = "fin" -> a
      [] a.k = b.k -> a
      [] OTHER -> NaN

\* a * b
FMul(a, b) ==
    CASE a.k = "nan" \/ b.k = "nan" -> NaN
      [] a.k = "fin" /\ b.k = "fin" -> Fin(a.n * b.n, a.d * b.d)
      [] Sign(a) * Sign(b) > 0 -> Inf
      [] Sign(a) * Sign(b) < 0 -> NegInf
      [] OTHER -> NaN

\* a <= b
FLeq(a, b) ==
    CASE a.k = "nan" \/ b.k = "nan" -> FALSE
      [] a.k = "fin" /\ b.k = "fin" -> a.n * b.d <= b.n * a.d
      [] a.k = "ninf" -> TRUE
      [] b.k = "inf" -> TRUE
      [] OTHER -> FALSE

----------------------------------------------------------------------------
(* Sequences *)
SetMin(S) == CHOOSE x \in S : \A y \in S : x <= y
SetMax(S) == CHOOSE x \in S : \A y \in S : y <= x

RECURSIVE SortedSeqOf(_)
SortedSeqOf(S) == IF S = {} THEN <<>>
                  ELSE <<SetMin(S)>> \o SortedSeqOf(S \ {SetMin(S)})

RECURSIVE Insert(_, _)
Insert(x, s) == IF s = <<>> THEN <<x>>
                ELSE IF x <= Head(s) THEN <<x>> \o s
                ELSE <<Head(s)>> \o Insert(x, Tail(s))

\* sorted(list)
RECURSIVE sorted(_)
sorted(s) == IF s = <<>> THEN <<>> ELSE Insert(Head(s), sorted(Tail(s)))

Last(s) == s[Len(s)]

\* the price series over dates D with prices ps, ordered by Date
MkSeries(D, ps) ==
    LET ds == SortedSeqOf(D)
    IN [i \in 1..Len(ds) |-> [Date |-> ds[i], adj_close |-> ps[i]]]

----------------------------------------------------------------------------
(* _get_monthly_investment_dates *)

\* a plausible slip: grouping on the month column alone
GroupKeyMonthOnly(date) == <<0, MonthOf(date)>>

\* the (year, month) columns added to the frame
GroupKey(date) == <<YearOf(date), MonthOf(date)>>

\* prices.groupby(["year", "month"]): the group keys present in the frame
GroupKeys(df) == {GroupKey(df[i].Date) : i \in DOMAIN df}

KeyLeq(a, b) == a[1] < b[1] \/ (a[1] = b[1] /\ a[2] <= b[2])

\* groupby iterates its keys in ascending order
RECURSIVE KeySeq(_)
KeySeq(K) ==
    IF K = {} THEN <<>>
    ELSE LET m == CHOOSE a \in K : \A b \in K : KeyLeq(a, b)
         IN <<m>> \o KeySeq(K \ {m})

\* the Date column of the group of a key
GroupDates(df, key) ==
    {df[i].Date : i \in {j \in DOMAIN df : GroupKey(df[j].Date) = key}}

\* a plausible slip: "> INVESTMENT_DAY" in place of ">="
InvestDateStrictlyAfter(group) ==
    LET cand == {d \in group : DayOf(d) > INVESTMENT_DAY}
    IN IF cand = {} THEN SetMax(group) ELSE SetMin(cand)

\* a plausible slip: no fallback, the nominal target date of the month is
\* scheduled even when the month has no row on or after it
InvestDateNoFallback(group) ==
    LET cand == {d \in group : DayOf(d) >= INVESTMENT_DAY}
        any == CHOOSE d \in group : TRUE
    IN IF cand = {} THEN MkDate(YearOf(any), MonthOf(any), INVESTMENT_DAY)
       ELSE SetMin(cand)

\* the date chosen inside one group: the first date on or after the target
\* day, else the last date of the month
InvestDateOfGroup(group) ==
    LET cand == {d \in group : DayOf(d) >= INVESTMENT_DAY}
    IN IF cand = {} THEN SetMax(group) ELSE SetMin(cand)

get_monthly_investment_dates(df) ==
    LET keys == KeySeq(GroupKeys(df))
        appended == [j \in 1..Len(keys) |-> InvestDateOfGroup(GroupDates(df, keys[j]))]
    IN sorted(appended)

----------------------------------------------------------------------------
(* StrategyResult and the rows of df_equity *)

EquityRow(date, tk, strategy, units, invested, value) ==
    [Date |-> date, ticker |-> tk, strategy |-> strategy, units |-> units,
     invested_amount |-> invested, portfolio_value |-> value]

StrategyResult(df_equity, name, tk) ==
    [outcome |-> "ok", df_equity |-> df_equity, name |-> name, ticker |-> tk]

\* a call left by an exception
Raise(exc) == [outcome |-> exc, df_equity |-> <<>>, name |-> "", ticker |-> ""]

NoResult == [outcome |-> "none", df_equity |-> <<>>, name |-> "", ticker |-> ""]

----------------------------------------------------------------------------
(* simulate_lump_sum *)

\* a plausible slip: the units of a row computed from that row's own price
LumpUnitsRowPrice(df, i) == FDiv(Fin(INITIAL_CAPITAL, 1), Fin(df[i].adj_close, 1))

\* the units column: every row holds INITIAL_CAPITAL / first_price
LumpUnits(df, i) == FDiv(Fin(INITIAL_CAPITAL, 1), Fin(df[1].adj_close, 1))

simulate_lump_sum(df, tk) ==
    IF df = <<>>
    THEN Raise("KeyError")     \* df.loc[0, "adj_close"] on an empty frame
    ELSE StrategyResult(
            [i \in 1..Len(df) |->
                EquityRow(df[i].Date, tk, "Lump Sum", LumpUnits(df, i),
                          INITIAL_CAPITAL,
                          FMul(LumpUnits(df, i), Fin(df[i].adj_close, 1)))],
            "Lump Sum", tk)

----------------------------------------------------------------------------
(* simulate_dca *)

\* current_date in invest_dates
IsInvestDate(current_date, dates) == \E j \in DOMAIN dates : dates[j] = current_date

\* a plausible slip: the lists are appended to before the purchase is made
DcaRowPreUpdate(acc, row, dates) ==
    LET buy == IsInvestDate(row.Date, dates)
        price == Fin(row.adj_close, 1)
        tu == IF buy
              THEN FAdd(acc.total_units, FDiv(Fin(MONTHLY_CONTRIBUTION, 1), price))
              ELSE acc.total_units
        ti == IF buy THEN acc.total_invested + MONTHLY_CONTRIBUTION
              ELSE acc.total_invested
    IN [total_units |-> tu, total_invested |-> ti,
        units_list |-> Append(acc.units_list, acc.total_units),
        invested_list |-> Append(acc.invested_list, acc.total_invested),
        value_list |-> Append(acc.value_list, FMul(acc.total_units, price))]

\* one iteration of the scan over df.iterrows(): acc holds the two
\* accumulators and the three lists
DcaRow(acc, row, dates) ==
    LET buy == IsInvestDate(row.Date, dates)
        price == Fin(row.adj_close, 1)
        tu == IF buy
              THEN FAdd(acc.total_units, FDiv(Fin(MONTHLY_CONTRIBUTION, 1), price))
              ELSE acc.total_units
        ti == IF buy THEN acc.total_invested + MONTHLY_CONTRIBUTION
              ELSE acc.total_invested
    IN [total_units |-> tu, total_invested |-> ti,
        units_list |-> Append(acc.units_list, tu),
        invested_list |-> Append(acc.invested_list, ti),
        value_list |-> Append(acc.value_list, FMul(tu, price))]

DcaStart == [total_units |-> Zero, total_invested |-> 0,
             units_list |-> <<>>, invested_list |-> <<>>, value_list |-> <<>>]

\* the frame returned once the three lists are attached as columns
DcaFrame(df, tk, ul, il, vl) ==
    [i \in 1..Len(df) |-> EquityRow(df[i].Date, tk, "DCA", ul[i], il[i], vl[i])]

RECURSIVE DcaScan(_, _, _, _)
DcaScan(df, dates, k, acc) ==
    IF k > Len(df) THEN acc
    ELSE DcaScan(df, dates, k + 1, DcaRow(acc, df[k], dates))

simulate_dca(df, tk) ==
    LET acc == DcaScan(df, get_monthly_investment_dates(df), 1, DcaStart)
    IN StrategyResult(
          DcaFrame(df, tk, acc.units_list, acc.invested_list, acc.value_list),
          "DCA", tk)

----------------------------------------------------------------------------
(* Inputs *)

\* the sets of at most n dates of D: the Date column of a frame
DateSets(D, n) == {T \in SUBSET D : Cardinality(T) <= n}

\* every series of at most n rows over the dates D, ordered by Date, unique dates
SeriesSet(D, P, n) ==
    UNION {{MkSeries(S, ps) : ps \in [1..Cardinality(S) -> P]} : S \in DateSets(D, n)}

SeqsUpTo(S, n) == UNION {[1..m -> S] : m \in 0..n}

\* the prices table of run_simulations holds short series
RunDates == {MkDate(2015, 12, 3), MkDate(2015, 12, 5), MkDate(2016, 12, 5)}
RunPrices == {0, 10}

----------------------------------------------------------------------------
(* SpecSim: one simulator called on one price series *)

InitSim ==
    /\ pc = "ready"
    /\ \E S \in DateSets(AllDates, MaxLen) :
          \E ps \in [1..Cardinality(S) -> Prices] : prices = MkSeries(S, ps)
    /\ ticker = "AAPL"     \* only copied into the records; Spec varies it
    /\ invest_dates = <<>>
    /\ idx = 0
    /\ total_units = Zero
    /\ total_invested = 0
    /\ units_list = <<>>
    /\ invested_list = <<>>
    /\ value_list = <<>>
    /\ result = NoResult
    /\ tickers = <<>>
    /\ db = [t \in Tickers |-> <<>>]
    /\ pos = 0
    /\ all_results = <<>>
    /\ df_all = <<>>
    /\ raised = "none"

\* simulate_lump_sum(prices, ticker)
CallLumpSum ==
    /\ pc = "ready"
    /\ result' = simulate_lump_sum(prices, ticker)
    /\ pc' = "lump_done"
    /\ UNCHANGED <<prices, ticker, invest_dates, idx, total_units, total_invested,
                   units_list, invested_list, value_list>>
    /\ UNCHANGED runVars

\* simulate_dca(prices, ticker) up to the loop: the schedule and the
\* zeroed accumulators
DcaBegin ==
    /\ pc = "ready"
    /\ invest_dates' = get_monthly_investment_dates(prices)
    /\ total_units' = DcaStart.total_units
    /\ total_invested' = DcaStart.total_invested
    /\ units_list' = DcaStart.units_list
    /\ invested_list' = DcaStart.invested_list
    /\ value_list' = DcaStart.value_list
    /\ idx' = 0
    /\ pc' = "dca_loop"
    /\ UNCHANGED <<prices, ticker, result>>
    /\ UNCHANGED runVars

\* one iteration of  for idx, row in df.iterrows()
DcaIterate ==
    /\ pc = "dca_loop"
    /\ idx < Len(prices)
    /\ LET acc == DcaRow([total_units |-> total_units,
                          total_invested |-> total_invested,
                          units_list |-> units_list,
                          invested_list |-> invested_list,
                          value_list |-> value_list],
                         prices[idx + 1], invest_dates)
       IN /\ total_units' = acc.total_units
          /\ total_invested' = acc.total_invested
          /\ units_list' = acc.units_list
          /\ invested_list' = acc.invested_list
          /\ value_list' = acc.value_list
    /\ idx' = idx + 1
    /\ UNCHANGED <<pc, prices, ticker, invest_dates, result>>
    /\ UNCHANGED runVars

\* the loop is exhausted: attach the columns and return
DcaReturn ==
    /\ pc = "dca_loop"
    /\ idx = Len(prices)
    /\ result' = StrategyResult(
                    DcaFrame(prices, ticker, units_list, invested_list, value_list),
                    "DCA", ticker)
    /\ pc' = "dca_done"
    /\ UNCHANGED <<prices, ticker, invest_dates, idx, total_units, total_invested,
                   units_list, invested_list, value_list>>
    /\ UNCHANGED runVars

NextSim == CallLumpSum \/ DcaBegin \/ DcaIterate \/ DcaReturn

SpecSim == InitSim /\ [][NextSim]_vars

----------------------------------------------------------------------------
(* Spec: run_simulations *)

\* SELECT ... FROM prices WHERE Ticker = ? ORDER BY Date
get_price_series(tk, conn) == conn[tk]

\* a plausible slip: the Lump Sum curve appended twice
LoopAppendLumpTwice(results, lump, dca) == results \o <<lump.df_equity, lump.df_equity>>

\* the two curves the loop body appends for one ticker
LoopAppend(results, lump, dca) == results \o <<lump.df_equity, dca.df_equity>>

\* pd.concat(all_results, ignore_index=True)
RECURSIVE concat(_)
concat(frames) == IF frames = <<>> THEN <<>> ELSE Head(frames) \o concat(Tail(frames))

Init ==
    /\ pc = "run_loop"
    /\ tickers \in SeqsUpTo(Tickers, MaxTickers)
    /\ db \in [Tickers -> SeriesSet(RunDates, RunPrices, MaxRunLen)]
    /\ pos = 0
    /\ all_results = <<>>
    /\ df_all = <<>>
    /\ raised = "none"
    /\ prices = <<>>
    /\ ticker = ""
    /\ invest_dates = <<>>
    /\ idx = 0
    /\ total_units = Zero
    /\ total_invested = 0
    /\ units_list = <<>>
    /\ invested_list = <<>>
    /\ value_list = <<>>
    /\ result = NoResult

\* the body of  for ticker in tickers : fetch, simulate both, append both
RunIteration ==
    /\ pc = "run_loop"
    /\ pos < Len(tickers)
    /\ LET tk == tickers[pos + 1]
           df == get_price_series(tk, db)
           lump == simulate_lump_sum(df, tk)
           dca == simulate_dca(df, tk)
       IN /\ ticker' = tk
          /\ prices' = df
          /\ IF lump.outcome # "ok"
             THEN \* the exception leaves run_simulations
                  /\ raised' = lump.outcome
                  /\ pc' = "run_raised"
                  /\ UNCHANGED <<pos, all_results>>
             ELSE /\ all_results' = LoopAppend(all_results, lump, dca)
                  /\ pos' = pos + 1
                  /\ UNCHANGED <<pc, raised>>
    /\ UNCHANGED <<tickers, db, df_all>>
    /\ UNCHANGED <<invest_dates, idx, total_units, total_invested,
                   units_list, invested_list, value_list, result>>

\* after the loop: pd.concat and return
RunConcat ==
    /\ pc = "run_loop"
    /\ pos = Len(tickers)
    /\ IF all_results = <<>>
       THEN \* pd.concat([]) : "No objects to concatenate"
            /\ raised' = "ValueError"
            /\ pc' = "run_raised"
            /\ UNCHANGED df_all
       ELSE /\ df_all' = concat(all_results)
            /\ pc' = "run_returned"
            /\ UNCHANGED raised
    /\ UNCHANGED <<tickers, db, pos, all_results>>
    /\ UNCHANGED simVars

Next == RunIteration \/ RunConcat

Spec == Init /\ [][Next]_vars

----------------------------------------------------------------------------
(* Properties *)

\* the calendar months (as month ordinals) that have a row in the series
MonthsIn(df) == {df[i].Date \div 32 : i \in DOMAIN df}
DatesIn(df) == {df[i].Date : i \in DOMAIN df}
Scheduled(date) == \E j \in DOMAIN invest_dates : invest_dates[j] = date
ScheduleKnown == pc \in {"dca_loop", "dca_done"}

\* C1: for a non-empty series the schedule holds exactly one date for each
\* calendar month that occurs in the series and no date of any other month,
\* so its size is the number of distinct months of the input.
C1_OneDatePerMonth ==
    (ScheduleKnown /\ prices # <<>>) =>
        /\ Len(invest_dates) = Cardinality(MonthsIn(prices))
        /\ \A m \in MonthsIn(prices) :
              Cardinality({j \in DOMAIN invest_dates : invest_dates[j] \div 32 = m}) = 1
        /\ \A j \in DOMAIN invest_dates : invest_dates[j] \div 32 \in MonthsIn(prices)

\* two rows of one December and one row of the next December: two dates
C1_Witness ==
    /\ pc = "dca_loop"
    /\ Len(prices) = 3
    /\ Cardinality(MonthsIn(prices)) = 2
    /\ Len(invest_dates) = 2
    /\ MonthOf(prices[1].Date) = MonthOf(prices[3].Date)

C4_Monotone ==
    pc = "dca_done" =>
        \A i \in 1..(Len(result.df_equity) - 1) :
            /\ FLeq(result.df_equity[i].units, result.df_equity[i + 1].units)
            /\ result.df_equity[i].invested_amount
                  <= result.df_equity[i + 1].invested_amount

\* C5: simulate_lump_sum over a non-empty series with a positive first price
\* emits one record per input date, each with units = INITIAL_CAPITAL /
\* first price, invested_amount = INITIAL_CAPITAL and portfolio_value =
\* units * that date's price.
C5_LumpSumRecords ==
    (pc = "lump_done" /\ prices # <<>> /\ prices[1].adj_close > 0) =>
        /\ result.outcome = "ok"
        /\ Len(result.df_equity) = Len(prices)
        /\ \A i \in DOMAIN prices :
              LET r == result.df_equity[i]
              IN /\ r.Date = prices[i].Date
                 /\ r.units.k = "fin"
                 /\ r.units.n * prices[1].adj_close = INITIAL_CAPITAL * r.units.d
                 /\ r.invested_amount = INITIAL_CAPITAL
                 /\ r.portfolio_value.k = "fin"
                 /\ r.portfolio_value.n * r.units.d
                       = r.units.n * prices[i].adj_close * r.portfolio_value.d

C5_Witness ==
    /\ pc = "lump_done"
    /\ result.outcome = "ok"
    /\ Len(prices) = 3
    /\ prices[1].adj_close = 10
    /\ prices[2].adj_close = -10
    /\ result.df_equity[2].units = Fin(1000, 1)
    /\ result.df_equity[2].portfolio_value = Fin(-10000, 1)

\* C6: a simulator that divides by a zero or negative price ends in
\* InvalidPriceError and emits no record computed from that price.
C6_InvalidPriceError ==
    /\ (pc = "lump_done" /\ prices # <<>> /\ prices[1].adj_close <= 0)
          => result.outcome = "InvalidPriceError"
    /\ (pc = "dca_done" /\ \E i \in DOMAIN prices :
                              Scheduled(prices[i].Date) /\ prices[i].adj_close <= 0)
          => result.outcome = "InvalidPriceError"

\* C7: simulate_dca on an empty price sequence fails with NoDataError and
\* returns no successful result.
C7_NoDataError ==
    (pc = "dca_done" /\ prices = <<>>) => result.outcome = "NoDataError"

\* C10: a step of the scan adds MONTHLY_CONTRIBUTION / price to the units
\* and MONTHLY_CONTRIBUTION to the invested total exactly on the scheduled
\* dates and leaves both alone on any other date; the record of a date
\* carries the state after the step with value = units * price, so records
\* before the first scheduled date are all zero.
C10_ScanStep ==
    pc = "dca_loop" =>
        /\ Len(units_list) = idx /\ Len(invested_list) = idx /\ Len(value_list) = idx
        /\ total_units = (IF idx = 0 THEN Zero ELSE units_list[idx])
        /\ total_invested = (IF idx = 0 THEN 0 ELSE invested_list[idx])
        /\ \A i \in 1..idx :
              LET prevU == IF i = 1 THEN Zero ELSE units_list[i - 1]
                  prevI == IF i = 1 THEN 0 ELSE invested_list[i - 1]
                  u == units_list[i]
                  v == value_list[i]
                  p == prices[i].adj_close
              IN /\ IF Scheduled(prices[i].Date)
                    THEN /\ invested_list[i] = prevI + MONTHLY_CONTRIBUTION
                         /\ (prevU.k = "fin" /\ p # 0) =>
                               /\ u.k = "fin"
                               /\ (u.n * prevU.d - prevU.n * u.d) * p
                                     = MONTHLY_CONTRIBUTION * u.d * prevU.d
                         /\ (prevU.k = "fin" /\ p = 0) => u.k = "inf"
                         /\ prevU.k # "fin" => u.k # "fin"
                    ELSE /\ invested_list[i] = prevI
                         /\ u = prevU
                 /\ u.k = "fin" =>
                       /\ v.k = "fin"
                       /\ v.n * u.d = u.n * p * v.d
                 /\ (\A j \in 1..i : ~Scheduled(prices[j].Date)) =>
                       /\ u = Zero /\ invested_list[i] = 0 /\ v = Zero

\* days 3, 5, 20 of one month at price 10: nothing held on day 3, 30 units
\* bought on day 5, unchanged on day 20
C10_Witness ==
    /\ pc = "dca_loop"
    /\ idx = 3
    /\ \A i \in 1..3 : prices[i].adj_close = 10
    /\ units_list = <<Zero, Fin(30, 1), Fin(30, 1)>>
    /\ invested_list = <<0, 300, 300>>
    /\ value_list = <<Zero, Fin(300, 1), Fin(300, 1)>>

\* an instrument whose series is non-empty with positive prices only
Healthy(tk) == db[tk] # <<>> /\ \A i \in DOMAIN db[tk] : db[tk][i].adj_close > 0

HasCurve(tk, strategy) ==
    \A i \in DOMAIN db[tk] :
        \E r \in DOMAIN df_all :
            /\ df_all[r].ticker = tk
            /\ df_all[r].strategy = strategy
            /\ df_all[r].Date = db[tk][i].Date

\* C8: when one instrument fails, run_simulations still ends with the Lump
\* Sum and DCA curves of every other instrument in its combined output.
C8_FailureIsolated ==
    pc \in {"run_returned", "run_raised"} =>
        \A k \in DOMAIN tickers :
            Healthy(tickers[k]) =>
                HasCurve(tickers[k], "Lump Sum") /\ HasCurve(tickers[k], "DCA")

\* rows of the combined output that precede the curves of the k-th ticker
RECURSIVE RowsBefore(_)
RowsBefore(k) == IF k <= 1 THEN 0
                 ELSE RowsBefore(k - 1) + 2 * Len(db[tickers[k - 1]])

====
